---- MODULE Spec2Model ----
(***************************************************************************)
(* A model of the notebook "Convert a HTML finding aid to JSON"            *)
(* (src/unnamed/part_002): the parsed HTML document, the extractor         *)
(* convert_finding_aid and its helpers, the generator find_leaves, the     *)
(* path builder get_paths, and the notebook cells that drive them.         *)
(*                                                                         *)
(* The parsed document is a sequence of elements in document order         *)
(* (pre-order); each element carries its depth in the element tree, so     *)
(* that .parent, .children and find_all are computed from the sequence.    *)
(* Python exceptions are results [ok |-> FALSE, err |-> <exception name>]. *)
(***************************************************************************)
EXTENDS Naturals, Sequences, FiniteSets, TLC

\* ------------------------------------------------------------------ bounds

\* The largest number of elements in a document.
MaxElems == 4

\* The deepest heading level marker that occurs in a document (c01..c0<MaxLevel>).
MaxLevel == 3

\* How often the notebook's path-building cell is run.
MaxRuns == 2

\* How many calls get_paths(node) with the declared defaults are made.
MaxDefaultCalls == 2

\* The largest number of dt and dd children of the summary's dl.
MaxDl == 3

\* The largest number of creators a harvested record lists.
MaxCreators == 2

\* The largest number of pages the API serves for the search.
MaxPages == 2

\* The largest number of records on a page.
MaxRecs == 2

\* The largest number of page requests of one call of harvest that are followed.
MaxRequests == 4

\* The deepest level of the documents that nest one heading per level.
MaxDepth == 11

\* The largest number of urls in a record's identifier field.
MaxIdents == 2

\* The largest number of calls of harvest in one kernel.
MaxCalls == 2

\* ------------------------------------------------------- python primitives

\* The value None.
PyNone == "<None>"

\* What a missing attribute looks like in the model (attrs[...] raises KeyError).
NoAttr == "<no attribute>"

\* What soup.find gives for an element that is not in the document (None).
NoElem == "<no element>"

\* What tag.string gives for an element that does not hold exactly one string (None).
NoString == "<no string>"

Ok(v) == [ok |-> TRUE, val |-> v]

Raise(e) == [ok |-> FALSE, err |-> e]

\* str.strip() for the whitespace the model's texts contain (blanks).
RECURSIVE LStrip(_)
LStrip(s) ==
    IF Len(s) > 0 /\ SubSeq(s, 1, 1) = " " THEN LStrip(SubSeq(s, 2, Len(s))) ELSE s

RECURSIVE RStrip(_)
RStrip(s) ==
    IF Len(s) > 0 /\ SubSeq(s, Len(s), Len(s)) = " "
    THEN RStrip(SubSeq(s, 1, Len(s) - 1))
    ELSE s

Strip(s) == RStrip(LStrip(s))

\* sep.join(strs)
RECURSIVE Join(_, _)
Join(strs, sep) ==
    IF strs = <<>> THEN ""
    ELSE IF Len(strs) = 1 THEN strs[1]
    ELSE strs[1] \o sep \o Join(Tail(strs), sep)

\* list.pop() as used on the titles list: the list without its last element.
Pop(list) == SubSeq(list, 1, Len(list) - 1)

\* --------------------------------------------------------- the parsed HTML

\* f"ctag-heading c0{level}": the class string get_children and
\* convert_finding_aid search for.
Marker(level) == "ctag-heading c0" \o ToString(level)

\* The class tokens of a heading the source marks with a two-digit level.
HeadingClass(level) ==
    <<"ctag-heading", IF level < 10 THEN "c0" \o ToString(level) ELSE "c" \o ToString(level)>>

\* Heading texts by position in the document (with surrounding blanks, and
\* with titles that coincide after stripping).
TextPalette == <<"A", " B", "A ", "C", " B ", "D", "E">>

TextAt(k) == TextPalette[((k - 1) % Len(TextPalette)) + 1]

\* The strings (NavigableString) among an element's children, by position in
\* the document: some hold white space only.
StringPalette == <<"  ", " x ", "y">>

StringAt(k) == StringPalette[((k - 1) % Len(StringPalette)) + 1]

\* hasString: the tag's .string is a string (the tag holds one string, or one
\* tag that does); it is None for a tag with several children or none.
Div(cls) ==
    [name |-> "div", class |-> cls, hasId |-> FALSE, hasPid |-> FALSE, hasString |-> FALSE]

Heading(level, hasId) ==
    [name |-> "h", class |-> HeadingClass(level), hasId |-> hasId, hasPid |-> FALSE,
     hasString |-> TRUE]

Img(hasPid) ==
    [name |-> "img", class |-> <<"thumbnail">>, hasId |-> FALSE, hasPid |-> hasPid,
     hasString |-> FALSE]

\* A string directly inside an element.
Text ==
    [name |-> "#text", class |-> <<>>, hasId |-> FALSE, hasPid |-> FALSE, hasString |-> TRUE]

\* A <p>: with one string, or with text and nested inline tags.
Para(hasString) ==
    [name |-> "p", class |-> <<>>, hasId |-> FALSE, hasPid |-> FALSE, hasString |-> hasString]

\* Element kinds of documents that hold only containers and identified headings.
HierKinds == {Div(<<>>)} \cup {Heading(l, TRUE) : l \in 1..MaxLevel}

\* All element kinds: also digitised containers, thumbnail images (with and
\* without data-pid) and headings without an id attribute.
AllKinds ==
    HierKinds
        \cup {Div(<<"image-and-title">>)}
        \cup {Heading(l, FALSE) : l \in 1..MaxLevel}
        \cup {Img(p) : p \in BOOLEAN}

Elem(kind, depth) ==
    [depth |-> depth, name |-> kind.name, class |-> kind.class,
     hasId |-> kind.hasId, hasPid |-> kind.hasPid, hasString |-> kind.hasString]

\* An element of the given depth can follow the elements of d in document
\* order: it is a child of the root, or of the last open container (div).
CanAppend(d, depth) ==
    \/ depth = 1
    \/ LET J == {j \in 1..Len(d) : d[j].depth < depth}
       IN  /\ J # {}
           /\ LET m == CHOOSE j \in J : \A i \in J : i <= j
              IN  d[m].depth = depth - 1 /\ d[m].name = "div"

\* The documents of exactly n elements of the given kinds.
RECURSIVE DocsOfLen(_, _)
DocsOfLen(n, kinds) ==
    IF n = 0 THEN {<<>>}
    ELSE LET shorter == DocsOfLen(n - 1, kinds)
         IN  {Append(d, Elem(k, dp)) :
                 <<d, dp>> \in {c \in shorter \X (1..n) : CanAppend(c[1], c[2])},
                 k \in kinds}

\* The documents of at most n elements of the given kinds: the prefixes of
\* the documents of n elements (a shorter document is extended to n elements
\* by children of the root).
DocsUpTo(n, kinds) == {SubSeq(d, 1, m) : d \in DocsOfLen(n, kinds), m \in 0..n}

\* The sequences of at most n members of S.
RECURSIVE SeqsUpTo(_, _)
SeqsUpTo(S, n) ==
    IF n = 0 THEN {<<>>}
    ELSE {<<>>} \cup {Append(s, e) : s \in SeqsUpTo(S, n - 1), e \in S}

\* The id attribute of element k, lifted verbatim into the node (here: one
\* distinct id per element that has the attribute).
IdOf(doc, k) == IF doc[k].hasId THEN "nla-obj-" \o ToString(k) ELSE NoAttr

\* The data-pid attribute of element k.
PidOf(doc, k) == IF doc[k].hasPid THEN "nla.obj-" \o ToString(k) ELSE NoAttr

\* Depth of element k; 0 is the BeautifulSoup object, the root of every element.
DepthOf(doc, k) == IF k = 0 THEN 0 ELSE doc[k].depth

\* element.parent: the nearest earlier element of smaller depth, else the root.
Parent(doc, k) ==
    LET J == {j \in 1..(k - 1) : doc[j].depth < doc[k].depth}
    IN  IF J = {} THEN 0 ELSE CHOOSE j \in J : \A i \in J : i <= j

Indices(doc) == [i \in 1..Len(doc) |-> i]

\* The elements below p (all of its descendants), in document order.
Descendants(doc, p) ==
    SelectSeq(Indices(doc),
              LAMBDA k : k > p /\ \A j \in (p + 1)..k : doc[j].depth > DepthOf(doc, p))

\* element.children restricted to tags: the direct children of p.
ChildElems(doc, p) ==
    SelectSeq(Descendants(doc, p), LAMBDA k : doc[k].depth = DepthOf(doc, p) + 1)

\* BeautifulSoup's class_ filter: the string equals one class token, or the
\* whole class attribute (its tokens joined by one blank).
ClassMatches(e, cls) ==
    \/ \E i \in 1..Len(e.class) : e.class[i] = cls
    \/ (e.class # <<>> /\ Join(e.class, " ") = cls)

\* tag.find_all(class_=cls): the matching descendants of p in document order.
FindAll(doc, p, cls) ==
    SelectSeq(Descendants(doc, p), LAMBDA k : ClassMatches(doc[k], cls))

\* ------------------------------------------------------------ the extractor

\* is_digitised(node): the heading's parent has a class attribute holding the
\* token image-and-title (the root has no attributes).
is_digitised(doc, k) ==
    LET p == Parent(doc, k)
    IN  /\ p # 0
        /\ doc[p].class # <<>>
        /\ \E i \in 1..Len(doc[p].class) : doc[p].class[i] = "image-and-title"

\* get_first_page(node): data-pid of the first thumbnail image below the
\* heading's parent; None when there is no such image; KeyError when the image
\* has no data-pid.
\* get_first_page taking the last thumbnail image instead of the first.
get_first_page_last(doc, k) ==
    LET imgs == SelectSeq(Descendants(doc, Parent(doc, k)),
                          LAMBDA j : doc[j].name = "img"
                                     /\ ClassMatches(doc[j], "thumbnail"))
    IN  IF imgs = <<>> THEN Ok(PyNone)
        ELSE IF doc[imgs[Len(imgs)]].hasPid THEN Ok(PidOf(doc, imgs[Len(imgs)]))
        ELSE Raise("KeyError")

get_first_page(doc, k) ==
    LET imgs == SelectSeq(Descendants(doc, Parent(doc, k)),
                          LAMBDA j : doc[j].name = "img"
                                     /\ ClassMatches(doc[j], "thumbnail"))
    IN  IF imgs = <<>> THEN Ok(PyNone)
        ELSE IF doc[imgs[1]].hasPid THEN Ok(PidOf(doc, imgs[1]))
        ELSE Raise("KeyError")

\* str(child.string) of a <p>: the text of its one string, or "None" when
\* .string is None.
StrOfString(doc, c) == IF doc[c].hasString THEN TextAt(c) ELSE "None"

\* get_text(node): the stripped non-empty strings and the stripped
\* str(child.string) of the <p> tags among the direct children of the
\* heading's parent, joined by newline.
RECURSIVE TextFragments(_, _)
TextFragments(doc, cs) ==
    IF cs = <<>> THEN <<>>
    ELSE LET c == Head(cs)
             rest == TextFragments(doc, Tail(cs))
         IN  IF doc[c].name = "#text"
             THEN IF Strip(StringAt(c)) # "" THEN <<Strip(StringAt(c))>> \o rest ELSE rest
             ELSE IF doc[c].name = "p" THEN <<Strip(StrOfString(doc, c))>> \o rest
             ELSE rest

get_text(doc, k) == Join(TextFragments(doc, ChildElems(doc, Parent(doc, k))), "\n")

\* The try/except of extract_node_details around get_first_page: a KeyError is
\* passed over and first_page keeps its default ""; nothing else is caught.
\* The call of get_first_page without the try/except around it.
FirstPageUncaught(doc, k) == get_first_page(doc, k)

FirstPage(doc, k) ==
    LET r == get_first_page(doc, k)
    IN  IF r.ok THEN r ELSE IF r.err = "KeyError" THEN Ok("") ELSE r

\* The search made in the whole document (soup.find_all).
ChildHeadingsOfDocument(doc, k, level) == FindAll(doc, 0, Marker(level + 1))

\* The search for the level after the next one.
ChildHeadingsSkipping(doc, k, level) == FindAll(doc, Parent(doc, k), Marker(level + 2))

\* The headings get_children(parent, level) iterates over:
\* parent.parent.find_all(class_=f"ctag-heading c0{level + 1}").
ChildHeadings(doc, k, level) == FindAll(doc, Parent(doc, k), Marker(level + 1))

\* The headings convert_finding_aid iterates over: soup.find_all(class_="ctag-heading c01").
TopHeadings(doc) == FindAll(doc, 0, "ctag-heading c01")

RECURSIVE extract_node_details(_, _, _)
RECURSIVE get_children(_, _, _)
RECURSIVE ExtractEach(_, _, _)

\* extract_node_details(node, level); node.attrs["id"] raises KeyError when the
\* heading has no id, before anything else is computed; an exception raised
\* below get_children propagates.
\* extract_node_details reading the id with node.attrs.get("id"): None for a
\* heading without id, and no exception.
extract_node_details_get(doc, k, level) ==
    LET digitised == is_digitised(doc, k)
        first_page == IF digitised THEN FirstPage(doc, k) ELSE Ok("")
    IN  IF ~first_page.ok THEN first_page
        ELSE LET children == get_children(doc, k, level)
             IN  IF ~children.ok THEN children
                 ELSE Ok([id |-> IF doc[k].hasId THEN IdOf(doc, k) ELSE PyNone,
                          title |-> Strip(TextAt(k)),
                          description |-> get_text(doc, k),
                          digitised |-> digitised,
                          first_page |-> first_page.val,
                          children |-> children.val])

extract_node_details(doc, k, level) ==
    IF ~doc[k].hasId THEN Raise("KeyError")
    ELSE LET digitised == is_digitised(doc, k)
             first_page == IF digitised THEN FirstPage(doc, k) ELSE Ok("")
         IN  IF ~first_page.ok THEN first_page
             ELSE LET children == get_children(doc, k, level)
                  IN  IF ~children.ok THEN children
                      ELSE Ok([id |-> IdOf(doc, k),
                               title |-> Strip(TextAt(k)),
                               description |-> get_text(doc, k),
                               digitised |-> digitised,
                               first_page |-> first_page.val,
                               children |-> children.val])

\* The loop "for child in ...: children.append(extract_node_details(child, level))":
\* the first exception ends the loop and propagates.
ExtractEach(doc, hs, level) ==
    IF hs = <<>> THEN Ok(<<>>)
    ELSE LET first == extract_node_details(doc, Head(hs), level)
         IN  IF ~first.ok THEN first
             ELSE LET rest == ExtractEach(doc, Tail(hs), level)
                  IN  IF ~rest.ok THEN rest ELSE Ok(<<first.val>> \o rest.val)

\* get_children(parent, level)
get_children(doc, k, level) == ExtractEach(doc, ChildHeadings(doc, k, level), level + 1)

\* The depth of the nest of calls of extract_node_details that the call
\* extract_node_details(node, level) makes, itself included: get_children
\* calls it for each heading of the next level until one of the calls raises.
RECURSIVE CallDepth(_, _, _)
RECURSIVE LoopDepth(_, _, _)
CallDepth(doc, k, level) ==
    IF ~doc[k].hasId THEN 1
    ELSE 1 + LoopDepth(doc, ChildHeadings(doc, k, level), level + 1)

LoopDepth(doc, hs, level) ==
    IF hs = <<>> THEN 0
    ELSE LET first == CallDepth(doc, Head(hs), level)
             rest == IF extract_node_details(doc, Head(hs), level).ok
                     THEN LoopDepth(doc, Tail(hs), level)
                     ELSE 0
         IN  IF first >= rest THEN first ELSE rest

\* ------------------------------------------------------ the summary fields

\* A python dict with string keys is a function on its keys.
EmptyDict == [x \in {} |-> ""]

DictSet(d, key, v) == [x \in (DOMAIN d) \cup {key} |-> IF x = key THEN v ELSE d[x]]

UpperChars == "ABCDEFGHIJKLMNOPQRSTUVWXYZ"

LowerChars == "abcdefghijklmnopqrstuvwxyz"

LowerChar(c) ==
    LET I == {i \in 1..Len(UpperChars) : SubSeq(UpperChars, i, i) = c}
    IN  IF I = {} THEN c ELSE LET i == CHOOSE x \in I : TRUE IN SubSeq(LowerChars, i, i)

\* str.lower()
RECURSIVE Lower(_)
Lower(s) ==
    IF Len(s) = 0 THEN ""
    ELSE LowerChar(SubSeq(s, 1, 1)) \o Lower(SubSeq(s, 2, Len(s)))

\* str.replace(" ", "_")
RECURSIVE ReplaceBlanks(_)
ReplaceBlanks(s) ==
    IF Len(s) = 0 THEN ""
    ELSE (IF SubSeq(s, 1, 1) = " " THEN "_" ELSE SubSeq(s, 1, 1))
             \o ReplaceBlanks(SubSeq(s, 2, Len(s)))

\* str(label.string).lower().strip().replace(" ", "_")
SummaryKey(label) == ReplaceBlanks(Strip(Lower(label)))

\* find_sibling_tag(label, "dd") among the children of the dl: the index of the
\* first dd after position i, or 0 for None.
find_sibling_dd(items, i) ==
    LET J == {j \in (i + 1)..Len(items) : items[j].tag = "dd"}
    IN  IF J = {} THEN 0 ELSE CHOOSE j \in J : \A x \in J : j <= x

\* The loop of get_fa_summary over summary.find_all("dt"); value.get_text() on
\* None raises AttributeError.
RECURSIVE SummaryLoop(_, _, _)
SummaryLoop(items, i, data) ==
    IF i > Len(items) THEN Ok(data)
    ELSE IF items[i].tag # "dt" THEN SummaryLoop(items, i + 1, data)
    ELSE LET v == find_sibling_dd(items, i)
         IN  IF v = 0 THEN Raise("AttributeError")
             ELSE SummaryLoop(items, i + 1,
                              DictSet(data, SummaryKey(items[i].string),
                                      Strip(items[v].string)))

\* get_fa_summary(soup): region.head is soup.find(id="collection-summary"),
\* region.dl its first dl sibling (None.find_all raises AttributeError),
\* region.items the dt and dd children of that dl.
get_fa_summary(region) ==
    IF ~region.head THEN Ok(EmptyDict)
    ELSE IF ~region.dl THEN Raise("AttributeError")
    ELSE SummaryLoop(region.items, 1, EmptyDict)

\* str(soup.find(tag, id=id).string): soup.find gives None for an element that
\* is not in the document, and None.string raises AttributeError; the .string
\* of an element that does not hold exactly one string is None, and str(None)
\* is "None".
StringOfFound(field) ==
    IF field = NoElem THEN Raise("AttributeError")
    ELSE IF field = NoString THEN Ok("None")
    ELSE Ok(field)

\* get_string_by_id without its try/except.
get_string_by_id_unguarded(field) == StringOfFound(field)

\* get_string_by_id(soup, tag, id): "" when the element is not found
\* (AttributeError is caught, nothing else).
get_string_by_id(field) ==
    LET r == StringOfFound(field)
    IN  IF r.ok THEN r ELSE IF r.err = "AttributeError" THEN Ok("") ELSE r

\* get_fa_details(soup)
get_fa_details(html) ==
    LET title == get_string_by_id(html.contentrow)
        collection_number == get_string_by_id(html.collnum)
    IN  IF ~title.ok THEN title
        ELSE IF ~collection_number.ok THEN collection_number
        ELSE Ok([title |-> title.val, collection_number |-> collection_number.val])

\* convert_finding_aid keeping an items value the summary already holds
\* (fa_data.setdefault("items", fa_items)).
convert_finding_aid_setdefault(html) ==
    LET summary == get_fa_summary(html.region)
    IN  IF ~summary.ok THEN summary
        ELSE LET fa_data == IF "title" \notin DOMAIN summary.val
                            THEN get_fa_details(html)
                            ELSE summary
             IN  IF ~fa_data.ok THEN fa_data
                 ELSE LET fa_items == ExtractEach(html.doc, TopHeadings(html.doc), 1)
                      IN  IF ~fa_items.ok THEN fa_items
                          ELSE IF "items" \in DOMAIN fa_data.val THEN fa_data
                          ELSE Ok(DictSet(fa_data.val, "items", fa_items.val))

\* convert_finding_aid(url), from the parsed response on.
convert_finding_aid(html) ==
    LET summary == get_fa_summary(html.region)
    IN  IF ~summary.ok THEN summary
        ELSE LET fa_data == IF "title" \notin DOMAIN summary.val
                            THEN get_fa_details(html)
                            ELSE summary
             IN  IF ~fa_data.ok THEN fa_data
                 ELSE LET fa_items == ExtractEach(html.doc, TopHeadings(html.doc), 1)
                      IN  IF ~fa_items.ok THEN fa_items
                          ELSE Ok(DictSet(fa_data.val, "items", fa_items.val))

\* ---------------------------------------------------------- the leaf list

\* A find_leaves generator is the stack of its suspended frames, outermost
\* first: the generator find_leaves(node) and, inside its for loop, the
\* generator of the element it is iterating.  A frame holds its node
\* (isList: a list of nodes, else a node dict) and the number of elements of
\* its loop it has started (for a leaf: whether it has yielded).
Frame(isList, node) == [isList |-> isList, node |-> node, i |-> 0]

\* find_leaves(node): calling the generator function runs none of its code.
find_leaves(nodes) == <<Frame(TRUE, nodes)>>

\* What the innermost frame iterates over: the list, or node["children"].
FrameSeq(f) == IF f.isList THEN f.node ELSE f.node.children

\* next(generator): runs to the next yield (done = FALSE, val the node
\* yielded) or to StopIteration (done = TRUE).
RECURSIVE GenNext(_)

\* A generator that also yields a node that has children, before its children.
GenNextAll(g) ==
    IF g = <<>> THEN [gen |-> <<>>, done |-> TRUE, val |-> PyNone]
    ELSE LET f == g[Len(g)]
             outer == SubSeq(g, 1, Len(g) - 1)
         IN  IF ~f.isList /\ f.i = 0
             THEN [gen |-> Append(outer, [f EXCEPT !.i = 1]),
                   done |-> FALSE, val |-> f.node]
             ELSE IF ~f.isList /\ f.i - 1 < Len(FrameSeq(f))
                  THEN GenNext(Append(Append(outer, [f EXCEPT !.i = f.i + 1]),
                                      Frame(FALSE, FrameSeq(f)[f.i])))
                  ELSE IF f.isList /\ f.i < Len(FrameSeq(f))
                  THEN GenNext(Append(Append(outer, [f EXCEPT !.i = f.i + 1]),
                                      Frame(FALSE, FrameSeq(f)[f.i + 1])))
                  ELSE GenNext(outer)

\* A generator that ends when the loop it is in ends, where the source goes
\* on with the loop of the generator around it.
GenNextStopping(g) ==
    IF g = <<>> THEN [gen |-> <<>>, done |-> TRUE, val |-> PyNone]
    ELSE LET f == g[Len(g)]
             outer == SubSeq(g, 1, Len(g) - 1)
         IN  IF ~f.isList /\ f.node.children = <<>>
             THEN IF f.i = 0
                  THEN [gen |-> Append(outer, [f EXCEPT !.i = 1]),
                        done |-> FALSE, val |-> f.node]
                  ELSE GenNext(outer)
             ELSE IF f.i < Len(FrameSeq(f))
                  THEN GenNext(Append(Append(outer, [f EXCEPT !.i = f.i + 1]),
                                      Frame(FALSE, FrameSeq(f)[f.i + 1])))
                  ELSE [gen |-> <<>>, done |-> TRUE, val |-> PyNone]

GenNext(g) ==
    IF g = <<>> THEN [gen |-> <<>>, done |-> TRUE, val |-> PyNone]
    ELSE LET f == g[Len(g)]
             outer == SubSeq(g, 1, Len(g) - 1)
         IN  IF ~f.isList /\ f.node.children = <<>>
             THEN IF f.i = 0
                  THEN [gen |-> Append(outer, [f EXCEPT !.i = 1]),
                        done |-> FALSE, val |-> f.node]
                  ELSE GenNext(outer)
             ELSE IF f.i < Len(FrameSeq(f))
                  THEN GenNext(Append(Append(outer, [f EXCEPT !.i = f.i + 1]),
                                      Frame(FALSE, FrameSeq(f)[f.i + 1])))
                  ELSE GenNext(outer)

\* list(generator)
RECURSIVE ListOf(_)
ListOf(g) ==
    LET r == GenNext(g)
    IN  IF r.done THEN <<>> ELSE <<r.val>> \o ListOf(r.gen)

\* --------------------------------------------------------- the path builder

\* get_paths(node, paths, titles).  The result holds the list returned and
\* the contents of the caller's titles list when the call returns: the call
\* appends to that list; "paths = []" and, in the leaf branch, "titles = []"
\* rebind local names and change no list the caller holds.
RECURSIVE get_paths(_, _)
RECURSIVE PathsLoop(_, _, _)
\* get_paths with the leaf branch emptying the caller's list (titles.clear())
\* where the source rebinds the local name.
get_paths_clearing(node, titles) ==
    LET pushed == Append(titles, node.title)
    IN  IF node.children = <<>>
        THEN [paths |-> <<[id |-> node.id, title |-> node.title,
                           context |-> Join(Pop(pushed), " / ")]>>,
              titles |-> <<>>]
        ELSE PathsLoop(node.children, <<>>, pushed)

get_paths(node, titles) ==
    LET pushed == Append(titles, node.title)
    IN  IF node.children = <<>>
        THEN [paths |-> <<[id |-> node.id, title |-> node.title,
                           context |-> Join(Pop(pushed), " / ")]>>,
              titles |-> pushed]
        ELSE PathsLoop(node.children, <<>>, pushed)

\* The loop over node["children"]: paths.extend(get_paths(i, paths, titles));
\* titles.pop().
\* The loop with each child's paths put in front of those gathered so far.
PathsLoopPrepending(children, paths, titles) ==
    IF children = <<>> THEN [paths |-> paths, titles |-> titles]
    ELSE LET r == get_paths(Head(children), titles)
         IN  PathsLoop(Tail(children), r.paths \o paths, Pop(r.titles))

\* The loop without "titles.pop()".
PathsLoopKeeping(children, paths, titles) ==
    IF children = <<>> THEN [paths |-> paths, titles |-> titles]
    ELSE LET r == get_paths(Head(children), titles)
         IN  PathsLoop(Tail(children), paths \o r.paths, r.titles)

PathsLoop(children, paths, titles) ==
    IF children = <<>> THEN [paths |-> paths, titles |-> titles]
    ELSE LET r == get_paths(Head(children), titles)
         IN  PathsLoop(Tail(children), paths \o r.paths, Pop(r.titles))

\* The calls of get_paths made by get_paths(node, [], titles), this call
\* first, in the order they are entered: the position of the node of each
\* call and the contents of its titles argument at entry. The loop passes
\* each child the list as the calls for the children before it left it.
RECURSIVE EntriesOf(_, _, _)
RECURSIVE LoopEntries(_, _, _, _)
EntriesOf(node, pos, titles) ==
    <<[pos |-> pos, titles |-> titles]>>
        \o LoopEntries(node.children, pos, 1, Append(titles, node.title))

LoopEntries(children, pos, i, titles) ==
    IF i > Len(children) THEN <<>>
    ELSE EntriesOf(children[i], Append(pos, i), titles)
             \o LoopEntries(children, pos, i + 1, Pop(get_paths(children[i], titles).titles))

\* The loop calling get_paths(series) and so using the default list.
DriverTitlesDefault(defaults) == defaults

\* The argument the notebook's loop passes for titles: a new empty list.
DriverTitles(defaults) == <<>>

\* The notebook cell: paths = []; for series in fa["items"]:
\* paths.extend(get_paths(series, [], [])).
RECURSIVE BuildPaths(_, _)
BuildPaths(items, defaults) ==
    IF items = <<>> THEN <<>>
    ELSE get_paths(Head(items), DriverTitles(defaults)).paths
             \o BuildPaths(Tail(items), defaults)

\* ------------------------------------------------------------- the inputs

NoRegion == [head |-> FALSE, dl |-> FALSE, items |-> <<>>]

DlKinds ==
    {[tag |-> "dt", string |-> "Title"], [tag |-> "dt", string |-> " Date Range"],
     [tag |-> "dt", string |-> "Items"], [tag |-> "dd", string |-> " MS 1540 "]}

\* The collection-summary regions: absent, a heading without dl sibling, and
\* a dl of at most n dt and dd children.
Regions(n) ==
    {NoRegion, [head |-> TRUE, dl |-> FALSE, items |-> <<>>]}
        \cup {[head |-> TRUE, dl |-> TRUE, items |-> it] :
                it \in SeqsUpTo(DlKinds, n)}

Html(doc, region, contentrow, collnum) ==
    [doc |-> doc, region |-> region, contentrow |-> contentrow, collnum |-> collnum]

\* Documents of containers and identified headings, without summary region.
HierInputs ==
    {Html(d, NoRegion, "Papers of A", "MS 1") : d \in DocsUpTo(MaxElems, HierKinds)}

\* The smaller of these documents: the trees on which get_paths is called
\* with its defaults between runs of the path-building cell.
CallInputs ==
    {Html(d, NoRegion, "Papers of A", "MS 1") : d \in DocsUpTo(MaxElems - 1, HierKinds)}

\* The element kinds a container holds besides containers.
LeafKinds == {k \in AllKinds : k.name # "div"}

\* One digitised container holding headings and thumbnail images.
DigitisedDocs ==
    {<<Elem(Div(<<"image-and-title">>), 1)>> \o [i \in 1..Len(d) |-> Elem(d[i], 2)] :
        d \in SeqsUpTo(LeafKinds, MaxElems - 1)}

DigitisedInputs ==
    {Html(d, NoRegion, "Papers of A", "MS 1") : d \in DigitisedDocs}

\* One heading for each of the levels 1..n, all in one parent element.
NestedDoc(n) == [l \in 1..n |-> Elem(Heading(l, TRUE), 1)]

\* Documents nested deeper than MaxLevel.
DeepInputs ==
    {Html(NestedDoc(n), NoRegion, "Papers of A", "MS 1") : n \in (MaxLevel + 1)..MaxDepth}

\* The element kinds that matter to a description.
DescriptionKinds == {Div(<<>>), Heading(1, TRUE), Text, Para(TRUE), Para(FALSE)}

\* Documents with strings and paragraphs beside and below the headings.
DescriptionInputs ==
    {Html(d, NoRegion, "Papers of A", "MS 1") : d \in DocsUpTo(MaxElems - 1, DescriptionKinds)}

\* Documents of every element kind, without summary region.
MixedInputs ==
    {Html(d, NoRegion, "Papers of A", "MS 1") : d \in DocsUpTo(MaxElems - 1, AllKinds)}

\* Small documents with every summary region.
SummaryInputs ==
    {Html(d, r, "Papers of A", "MS 1") :
        d \in DocsUpTo(MaxElems - 2, HierKinds), r \in Regions(MaxDl)}

\* Small documents with every combination of the fallback fields.
FallbackInputs ==
    {Html(d, NoRegion, c, n) :
        d \in DocsUpTo(MaxElems - 2, HierKinds),
        c \in {NoElem, NoString, "Papers of A"}, n \in {NoElem, NoString, "MS 1"}}

\* ------------------------------------------------------- the notebook state

VARIABLES
    html,        \* the parsed response of s.get(url)
    pc,          \* "start", "converted" (fa is set) or "failed" (the cell raised)
    raised,      \* the exception the conversion cell raised, else None
    fa,          \* the notebook's fa: the dict convert_finding_aid returned
    leaves,      \* the notebook's leaves (run: the cell has been run)
    pathsRuns,   \* the notebook's paths after each run of the path-building cell
    dfltTitles,  \* the list object that is the default of get_paths' titles
    dfltCalls,   \* the calls get_paths(node) made so far, with their results
    gens,        \* the find_leaves generators created besides the leaves cell's
    written,     \* the files written so far: name and content, in order of writing
    api,         \* the pages the API serves for the search, in cursor order
    max_records, \* the argument of harvest (0: None)
    hpc,         \* "idle", "running" (inside harvest's while loop) or "returned"
    start,       \* harvest's cursor: the value of s for the next request, or None
    pbar_n,      \* pbar.n
    items,       \* harvest's list of saved items
    requests,    \* the cursors of the page requests the current call has made
    notebook,    \* the harvest that is run: "pd", "fa" or "old"
    finding_aids,\* harvest's list of finding-aid urls
    cache,       \* the requests the CachedSession holds a response for
    params_s,    \* params["s"] of the shared params dict (None: no such key)
    events,      \* the requests and sleeps of the current call, in order
    calls        \* the number of calls of harvest so far

\* The state of the finding-aid notebook and of the public-domain harvest.
nbvars == <<html, pc, raised, fa, leaves, pathsRuns, dfltTitles, dfltCalls, gens, written>>

hvars ==
    <<api, max_records, hpc, start, pbar_n, items, requests,
      notebook, finding_aids, cache, params_s, events, calls>>

vars == <<nbvars, hvars>>

\* The harvest notebook before harvest is called.
HarvestIdle ==
    /\ max_records = 0
    /\ hpc = "idle"
    /\ start = PyNone
    /\ pbar_n = 0
    /\ items = <<>>
    /\ requests = <<>>
    /\ finding_aids = <<>>
    /\ params_s = PyNone
    /\ events = <<>>
    /\ calls = 0

\* The names of the generator objects.
Gens == {"g1", "g2"}

NoGen == [created |-> FALSE, frames |-> <<>>, yielded |-> <<>>, done |-> FALSE, calls |-> 0]

InitWith(inputs) ==
    /\ html \in inputs
    /\ pc = "start"
    /\ raised = PyNone
    /\ fa = EmptyDict
    /\ leaves = [run |-> FALSE, val |-> <<>>]
    /\ pathsRuns = <<>>
    /\ dfltTitles = <<>>
    /\ dfltCalls = <<>>
    /\ gens = [g \in Gens |-> NoGen]
    /\ written = <<>>
    /\ api = <<>>
    /\ notebook = "pd"
    /\ cache = {}
    /\ HarvestIdle

\* The notebook starts from any of the parsed responses.
Init ==
    \/ InitWith(HierInputs)
    \/ InitWith(MixedInputs)
    \/ InitWith(DigitisedInputs)
    \/ InitWith(SummaryInputs)
    \/ InitWith(FallbackInputs)
    \/ InitWith(DeepInputs)
    \/ InitWith(DescriptionInputs)

\* The cell "fa = convert_finding_aid(url)": an exception ends the cell and
\* leaves fa unset.
ConvertCell ==
    /\ pc = "start"
    /\ LET r == convert_finding_aid(html)
       IN  IF r.ok
           THEN /\ pc' = "converted"
                /\ fa' = r.val
                /\ raised' = raised
           ELSE /\ pc' = "failed"
                /\ fa' = fa
                /\ raised' = r.err
    /\ UNCHANGED <<html, leaves, pathsRuns, dfltTitles, dfltCalls, gens, written>>
    /\ UNCHANGED hvars

\* The cell "leaves = list(find_leaves(fa["items"]))".
LeavesCell ==
    /\ pc = "converted"
    /\ ~leaves.run
    /\ leaves' = [run |-> TRUE, val |-> ListOf(find_leaves(fa["items"]))]
    /\ UNCHANGED <<html, pc, raised, fa, pathsRuns, dfltTitles, dfltCalls, gens, written>>
    /\ UNCHANGED hvars

\* The cell that builds paths with get_paths(series, [], []).
PathsCell ==
    /\ pc = "converted"
    /\ Len(pathsRuns) < MaxRuns
    /\ pathsRuns' = Append(pathsRuns, BuildPaths(fa["items"], dfltTitles))
    /\ UNCHANGED <<html, pc, raised, fa, leaves, dfltTitles, dfltCalls, gens, written>>
    /\ UNCHANGED hvars

\* The nodes of a list of nodes, at every depth.
RECURSIVE NodesOf(_)
NodesOf(nodes) ==
    IF nodes = <<>> THEN {}
    ELSE {Head(nodes)} \cup NodesOf(Head(nodes).children) \cup NodesOf(Tail(nodes))

\* A call get_paths(node) that passes neither paths nor titles: titles is the
\* default list object, which keeps what the call leaves in it.
DefaultCall ==
    /\ pc = "converted"
    /\ Len(dfltCalls) < MaxDefaultCalls
    /\ \E node \in NodesOf(fa["items"]) :
          LET r == get_paths(node, dfltTitles)
          IN  /\ dfltTitles' = r.titles
              /\ dfltCalls' = Append(dfltCalls,
                                     [node |-> node, before |-> dfltTitles,
                                      paths |-> r.paths])
    /\ UNCHANGED <<html, pc, raised, fa, leaves, pathsRuns, gens, written>>
    /\ UNCHANGED hvars

\* The notebook run: conversion, then the leaves and paths cells.
Next == ConvertCell \/ LeavesCell \/ PathsCell

Spec == Init /\ [][Next]_vars

\* The path builder called again and again on a converted finding aid, by
\* the notebook's cell and directly with its defaults.
InitCalls == InitWith(CallInputs)

NextCalls == ConvertCell \/ PathsCell \/ DefaultCall

SpecCalls == InitCalls /\ [][NextCalls]_vars

\* g = find_leaves(fa["items"]): a new generator object over the tree.
CreateGen(g) ==
    /\ pc = "converted"
    /\ ~gens[g].created
    /\ gens' = [gens EXCEPT ![g] = [NoGen EXCEPT !.created = TRUE,
                                                !.frames = find_leaves(fa["items"])]]
    /\ UNCHANGED <<html, pc, raised, fa, leaves, pathsRuns, dfltTitles, dfltCalls, written>>
    /\ UNCHANGED hvars

\* next(g) on a generator that has not raised StopIteration yet.
NextOnGen(g) ==
    /\ gens[g].created
    /\ ~gens[g].done
    /\ LET r == GenNext(gens[g].frames)
       IN  gens' = [gens EXCEPT
                       ![g].frames = r.gen,
                       ![g].calls = @ + 1,
                       ![g].done = r.done,
                       ![g].yielded = IF r.done THEN @ ELSE Append(@, r.val)]
    /\ UNCHANGED <<html, pc, raised, fa, leaves, pathsRuns, dfltTitles, dfltCalls, written>>
    /\ UNCHANGED hvars

\* Two generators over the tree of a converted finding aid, consumed in any
\* interleaving.
InitGens == InitWith(HierInputs)

NextGens == ConvertCell \/ (\E g \in Gens : CreateGen(g)) \/ (\E g \in Gens : NextOnGen(g))

SpecGens == InitGens /\ [][NextGens]_vars

\* The files of the notebook and the cells that write them.  The kernel is
\* fresh: fa, df_leaves and df_paths are bound only once their cells have run
\* without an exception, and a write cell that reads an unbound name raises
\* NameError before it opens its file.
IsWritten(name) == \E i \in 1..Len(written) : written[i].name = name

\* The JSON cell run although the conversion cell raised (fa bound to
\* whatever an earlier run left, here the empty dict).
WriteJsonAfterFailure ==
    /\ pc \in {"converted", "failed"}
    /\ ~IsWritten("json")
    /\ written' = Append(written, [name |-> "json", content |-> fa])
    /\ UNCHANGED <<html, pc, raised, fa, leaves, pathsRuns, dfltTitles, dfltCalls, gens>>
    /\ UNCHANGED hvars

\* Path(f"finding-aid-{fa_id}.json").write_text(json.dumps(fa, indent=4)):
\* the text is built from fa before the file is opened and written at once.
WriteJson ==
    /\ pc = "converted"
    /\ ~IsWritten("json")
    /\ written' = Append(written, [name |-> "json", content |-> fa])
    /\ UNCHANGED <<html, pc, raised, fa, leaves, pathsRuns, dfltTitles, dfltCalls, gens>>
    /\ UNCHANGED hvars

\* df_leaves = pd.DataFrame(leaves); df_leaves.to_csv(...-leaves.csv)
WriteLeavesCsv ==
    /\ leaves.run
    /\ ~IsWritten("leaves")
    /\ written' = Append(written, [name |-> "leaves", content |-> leaves.val])
    /\ UNCHANGED <<html, pc, raised, fa, leaves, pathsRuns, dfltTitles, dfltCalls, gens>>
    /\ UNCHANGED hvars

\* df_paths = pd.DataFrame(paths); df_paths.to_csv(...-paths.csv)
WritePathsCsv ==
    /\ pathsRuns # <<>>
    /\ ~IsWritten("paths")
    /\ written' = Append(written, [name |-> "paths", content |-> pathsRuns[Len(pathsRuns)]])
    /\ UNCHANGED <<html, pc, raised, fa, leaves, pathsRuns, dfltTitles, dfltCalls, gens>>
    /\ UNCHANGED hvars

\* The documents the artifacts are written for: small documents of every
\* element kind, with the summary region absent or without its dl.
WriteInputs ==
    {Html(d, r, "Papers of A", "MS 1") :
        d \in DocsUpTo(MaxElems - 2, AllKinds),
        r \in {NoRegion, [head |-> TRUE, dl |-> FALSE, items |-> <<>>]}}

InitWrites == InitWith(WriteInputs)

\* The notebook run with its three write cells.
NextWrites ==
    ConvertCell \/ WriteJson \/ LeavesCell \/ WriteLeavesCsv \/ PathsCell \/ WritePathsCsv

SpecWrites == InitWrites /\ [][NextWrites]_vars

\* ------------------------------------------- the public-domain harvest

\* The year of "int(year) < 1949".
OpeningYear == 1949

\* pbar.update(100): the records counted per page requested.
PageSize == 100

Digits == "0123456789"

\* \d for the characters of the model's strings.
IsDigit(c) == \E i \in 1..Len(Digits) : SubSeq(Digits, i, i) = c

\* \w: letters, digits and the underscore.
WordChars == UpperChars \o LowerChars \o Digits \o "_"

IsWordChar(c) == \E i \in 1..Len(WordChars) : SubSeq(WordChars, i, i) = c

\* int(year) for a string of digits.
RECURSIVE ToInt(_)
ToInt(s) ==
    IF Len(s) = 0 THEN 0
    ELSE LET last == SubSeq(s, Len(s), Len(s))
             d == (CHOOSE i \in 1..Len(Digits) : SubSeq(Digits, i, i) = last) - 1
         IN  10 * ToInt(SubSeq(s, 1, Len(s) - 1)) + d

\* re.search(r"\b(\d{4})$", value).group(1): four digits at the end of the
\* string (or before its final newline) that no word character precedes;
\* AttributeError (no match) and TypeError (value is None) give None.
get_latest_year(value) ==
    IF value = PyNone THEN PyNone
    ELSE LET s == IF Len(value) > 0 /\ SubSeq(value, Len(value), Len(value)) = "\n"
                  THEN SubSeq(value, 1, Len(value) - 1)
                  ELSE value
             n == Len(s)
         IN  IF /\ n >= 4
                /\ \A i \in (n - 3)..n : IsDigit(SubSeq(s, i, i))
                /\ (n = 4 \/ ~IsWordChar(SubSeq(s, n - 4, n - 4)))
             THEN SubSeq(s, n - 3, n)
             ELSE PyNone

\* "year and int(year) < 1949"
YearOpens(year) == year # PyNone /\ year # "" /\ ToInt(year) < OpeningYear

\* check_creators counting a creator as soon as a year is found.
check_creators_any_year(creators) ==
    LET count == Cardinality({i \in 1..Len(creators) :
                                 get_latest_year(creators[i]) # PyNone})
    IN  Len(creators) = count

\* check_creators(creators)
check_creators(creators) ==
    LET count == Cardinality({i \in 1..Len(creators) :
                                 YearOpens(get_latest_year(creators[i]))})
    IN  Len(creators) = count

\* check_date comparing with "<=".
check_date_inclusive(issued) ==
    LET year == get_latest_year(issued)
    IN  year # PyNone /\ year # "" /\ ToInt(year) <= OpeningYear

\* check_date(issued)
check_date(issued) == YearOpens(get_latest_year(issued))

\* record.get("contributor"): None (given is FALSE) or a list of strings.
Contributor(given, list) == [given |-> given, list |-> list]

\* record.get("issued"): None, a JSON number or a string.
NoIssued == [type |-> "none", int |-> 0, str |-> ""]

IssuedInt(n) == [type |-> "int", int |-> n, str |-> ""]

IssuedStr(s) == [type |-> "str", int |-> 0, str |-> s]

\* "if creators:" and "elif issued:": None, the empty list, 0 and "" are false.
CreatorsTruthy(c) == c.given /\ c.list # <<>>

IssuedTruthy(d) == (d.type = "int" /\ d.int # 0) \/ (d.type = "str" /\ d.str # "")

\* str(issued)
StrOfIssued(d) ==
    IF d.type = "int" THEN ToString(d.int)
    ELSE IF d.type = "none" THEN "None"
    ELSE d.str

\* The decision of harvest's loop body for one record.
Opening(record) ==
    IF CreatorsTruthy(record.contributor) THEN check_creators(record.contributor.list)
    ELSE IF IssuedTruthy(record.issued) THEN check_date(StrOfIssued(record.issued))
    ELSE FALSE

\* The item harvest saves for a record: " | ".join(creators), or creators
\* itself (None) when join raises TypeError.
ItemOf(record) ==
    [id |-> record.id,
     creator |-> IF record.contributor.given
                 THEN Join(record.contributor.list, " | ")
                 ELSE PyNone,
     date |-> record.issued]

\* The loop "for record in data[...]["work"]" of harvest.
RECURSIVE ProcessRecords(_, _)
ProcessRecords(work, saved) ==
    IF work = <<>> THEN saved
    ELSE ProcessRecords(Tail(work),
                        IF Opening(Head(work)) THEN Append(saved, ItemOf(Head(work)))
                        ELSE saved)

\* The creator strings of the harvested records.
CreatorPalette ==
    {"Smith, John, 1850-1920", "Jones, Mary, 1901-1949", "Brown, Ann, 1948",
     "Lee, Kim, 1900-", "White, Sam, 18801", "Gray, Tom, d1920", "1066"}

\* The issued values of the harvested records.
IssuedPalette ==
    {NoIssued, IssuedInt(0), IssuedInt(1920), IssuedInt(1949), IssuedStr(""),
     IssuedStr("1900-1950"), IssuedStr("1855-1948"), IssuedStr("193-")}

\* The identifier field of a record: absent (record["identifier"] raises
\* KeyError) or a list of dicts with a "value".
Identifier(given, urls) ==
    [given |-> given, list |-> [i \in 1..Len(urls) |-> [value |-> urls[i]]]]

NoIdentifier == Identifier(FALSE, <<>>)

\* A record before the API gives it an id.
RecordData(contributor, issued) ==
    [contributor |-> contributor, issued |-> issued, identifier |-> NoIdentifier]

\* Every combination of creators and issued value.
AllRecordData ==
    {RecordData(Contributor(FALSE, <<>>), d) : d \in IssuedPalette}
        \cup {RecordData(Contributor(TRUE, c), d) :
                c \in SeqsUpTo(CreatorPalette, MaxCreators), d \in IssuedPalette}

\* A record that is saved for its creators, and one that is not saved.
FewRecordData ==
    {RecordData(Contributor(TRUE, <<"Brown, Ann, 1948">>), IssuedInt(1949)),
     RecordData(Contributor(FALSE, <<>>), IssuedStr("1900-1950"))}

\* s[i..] starts with sub.
StartsWithAt(s, sub, i) ==
    i + Len(sub) - 1 <= Len(s) /\ SubSeq(s, i, i + Len(sub) - 1) = sub

\* s.find(sub) + 1: the position of the first occurrence of sub in s, else 0.
Find(s, sub) ==
    IF \E i \in 1..Len(s) : StartsWithAt(s, sub, i)
    THEN CHOOSE i \in 1..Len(s) :
            StartsWithAt(s, sub, i) /\ \A j \in 1..(i - 1) : ~StartsWithAt(s, sub, j)
    ELSE 0

\* s.replace(old, new): every occurrence, leftmost first, none overlapping.
RECURSIVE Replace(_, _, _)
Replace(s, old, new) ==
    LET i == Find(s, old)
    IN  IF i = 0 THEN s
        ELSE SubSeq(s, 1, i - 1) \o new
                 \o Replace(SubSeq(s, i + Len(old), Len(s)), old, new)

\* re.search(r".*?findingaid", value).group(0): value up to the end of the
\* first "findingaid".
TrimToFindingAid(value) == SubSeq(value, 1, Find(value, "findingaid") + Len("findingaid") - 1)

\* get_fa_link: the loop returns at the first identifier that contains
\* "findingaid"; the function returns None when the loop runs out.
RECURSIVE get_fa_link(_)
get_fa_link(identifiers) ==
    IF identifiers = <<>> THEN PyNone
    ELSE IF Find(Head(identifiers).value, "findingaid") # 0
         THEN TrimToFindingAid(Head(identifiers).value)
         ELSE get_fa_link(Tail(identifiers))

\* "Standardise urls": the two replace calls of harvest.
Standardise(fa_link) == Replace(Replace(fa_link, "https", "http"), "http://http", "http")

\* The body of harvest's record loop in the finding-aids notebook: a missing
\* identifier field (KeyError) and a falsy link add nothing.
RECURSIVE ProcessIdentifiers(_, _)
ProcessIdentifiers(work, saved) ==
    IF work = <<>> THEN saved
    ELSE LET record == Head(work)
             fa_link == IF record.identifier.given
                        THEN get_fa_link(record.identifier.list)
                        ELSE PyNone
         IN  ProcessIdentifiers(Tail(work),
                                IF fa_link # PyNone /\ fa_link # ""
                                THEN Append(saved, Standardise(fa_link))
                                ELSE saved)

\* The urls of the identifier fields.
UrlPalette ==
    {"https://a/findingaid?q=1", "http://b/findingaid", "http://c/item",
     "http://https://d/findingaid/findingaid"}

\* A record of the finding-aids search: its identifier field matters only.
FaRecordData(identifier) ==
    [contributor |-> Contributor(FALSE, <<>>), issued |-> NoIssued, identifier |-> identifier]

\* Records without identifier field and with up to MaxIdents identifiers.
AllFaRecordData ==
    {FaRecordData(NoIdentifier)}
        \cup {FaRecordData(Identifier(TRUE, urls)) : urls \in SeqsUpTo(UrlPalette, MaxIdents)}

\* A record with a finding-aid link and one without identifier field.
FewFaRecordData ==
    {FaRecordData(Identifier(TRUE, <<"http://c/item", "https://a/findingaid?q=1">>)),
     FaRecordData(NoIdentifier)}

\* The pages of the API: the records get their ids by page and position.
PageOf(p, work, hasNext) ==
    [work |-> [i \in 1..Len(work) |->
                  [id |-> ToString(p) \o "-" \o ToString(i),
                   contributor |-> work[i].contributor,
                   issued |-> work[i].issued,
                   identifier |-> work[i].identifier]],
     hasNext |-> hasNext]

\* The last page has no nextStart, unless the API is endless: then it carries
\* a cursor for which the API serves it again.
ApiOf(pages, endless) ==
    [p \in 1..Len(pages) |-> PageOf(p, pages[p], p < Len(pages) \/ endless)]

\* One page with one record of any kind, and up to MaxPages pages of up to
\* MaxRecs records of the few kinds.
ApiInputs ==
    {ApiOf(<<<<r>>>>, FALSE) : r \in AllRecordData}
        \cup {ApiOf(pages, endless) :
                pages \in SeqsUpTo(SeqsUpTo(FewRecordData, MaxRecs), MaxPages) \ {<<>>},
                endless \in BOOLEAN}

\* The same for the finding-aids search.
FaApiInputs ==
    {ApiOf(<<<<r>>>>, FALSE) : r \in AllFaRecordData}
        \cup {ApiOf(pages, endless) :
                pages \in SeqsUpTo(SeqsUpTo(FewFaRecordData, MaxRecs), MaxPages) \ {<<>>},
                endless \in BOOLEAN}

\* A record that either harvest saves, followed by one that neither saves.
SessionPage ==
    <<[contributor |-> Contributor(TRUE, <<"Brown, Ann, 1948">>),
       issued |-> IssuedInt(1949),
       identifier |-> Identifier(TRUE, <<"https://a/findingaid?q=1">>)],
      [contributor |-> Contributor(FALSE, <<>>),
       issued |-> IssuedStr("1900-1950"),
       identifier |-> NoIdentifier]>>

\* Up to MaxPages such pages, with and without an end.
SessionApis ==
    {ApiOf([p \in 1..n |-> SessionPage], endless) : n \in 1..MaxPages, endless \in BOOLEAN}

\* data["response"]["zone"][0]["records"]["nextStart"] of page p.
NextStart(p) == "cursor-" \o ToString(p + 1)

\* The page the API serves for a cursor.
PageAt(cursor) ==
    IF cursor = "*" THEN 1
    ELSE LET p == CHOOSE q \in 2..(Len(api) + 1) : NextStart(q - 1) = cursor
         IN  IF p > Len(api) THEN Len(api) ELSE p

\* The values harvest is called with: None (0), whole pages and half pages.
MaxRecordsChoices ==
    {0} \cup {PageSize * k : k \in 1..MaxPages}
        \cup {PageSize * k - (PageSize \div 2) : k \in 1..MaxPages}

\* The break taken only once more than max_records records are counted.
BreakOnMaxAfter(max, n) == max # 0 /\ n > max

\* "if max_records and pbar.n >= max_records: break"
BreakOnMax(max, n) == max # 0 /\ n >= max

\* The entries of the log of requests and sleeps.
Request(s, from_cache) == [type |-> "request", s |-> s, from_cache |-> from_cache]

Sleep == [type |-> "sleep", s |-> PyNone, from_cache |-> FALSE]

\* get_total(params) at the start of harvest in the finding-aids notebook:
\* one request with the shared params as they are, and no sleep.
get_total(log) == Append(log, Request(params_s, params_s \in cache))

\* The public-domain notebook sleeps at the end of a pass of the loop, which
\* the break skips: "if not response.from_cache: time.sleep(0.2)".
SleepsPd(from_cache, break) == ~break /\ ~from_cache

\* The finding-aids notebook sleeps after the record loop, before the break.
SleepsFa(from_cache) == ~from_cache

\* The first version's loop sleeps in every pass: time.sleep(0.5).
SleepsOld == TRUE

\* The harvest taken up where the last one stopped: the cursor left in params.
FirstCursorLeft(left) == IF left = PyNone THEN "*" ELSE left

\* start = "*": the cursor harvest begins with, whatever params["s"] holds.
FirstCursor(left) == "*"

\* The statements of harvest before the while loop. The first version is a
\* cell without max_records; its session has no cache.
EnterHarvest ==
    /\ \E m \in (IF notebook = "old" THEN {0} ELSE MaxRecordsChoices) : max_records' = m
    /\ hpc' = "running"
    /\ items' = <<>>
    /\ finding_aids' = <<>>
    /\ start' = FirstCursor(params_s)
    /\ pbar_n' = 0
    /\ requests' = <<>>
    /\ calls' = calls + 1
    /\ events' = IF notebook = "fa" THEN get_total(<<>>) ELSE <<>>
    /\ cache' = IF notebook = "fa" THEN cache \cup {params_s} ELSE cache
    /\ UNCHANGED <<api, notebook, params_s>>
    /\ UNCHANGED nbvars

\* The first call: items = harvest() or harvest(max_records).
CallHarvest ==
    /\ hpc = "idle"
    /\ EnterHarvest

\* A later call in the same kernel, as the test cell's harvest(200) after
\* the cell that ran harvest().
CallHarvestAgain ==
    /\ hpc = "returned"
    /\ calls < MaxCalls
    /\ EnterHarvest

\* One pass of "while start:": params["s"] = start, the request, the loop
\* over the page's records, the sleep, the next cursor (None on KeyError),
\* pbar.update(100) and the break on max_records; the loop ends on break or
\* on start = None.
HarvestPage ==
    /\ hpc = "running"
    /\ Len(requests) < MaxRequests
    /\ LET p == PageAt(start)
           next == IF api[p].hasNext THEN NextStart(p) ELSE PyNone
           from_cache == notebook # "old" /\ start \in cache
           break == BreakOnMax(max_records, pbar_n + PageSize)
           sleeps == CASE notebook = "pd" -> SleepsPd(from_cache, break)
                       [] notebook = "fa" -> SleepsFa(from_cache)
                       [] OTHER -> SleepsOld
       IN  /\ params_s' = start
           /\ requests' = Append(requests, start)
           /\ cache' = IF notebook = "old" THEN cache ELSE cache \cup {start}
           /\ events' = events \o <<Request(start, from_cache)>>
                            \o (IF sleeps THEN <<Sleep>> ELSE <<>>)
           /\ items' = IF notebook = "fa" THEN items
                       ELSE ProcessRecords(api[p].work, items)
           /\ finding_aids' = IF notebook = "fa"
                              THEN ProcessIdentifiers(api[p].work, finding_aids)
                              ELSE finding_aids
           /\ start' = next
           /\ pbar_n' = pbar_n + PageSize
           /\ hpc' = IF break \/ next = PyNone THEN "returned" ELSE "running"
    /\ UNCHANGED <<api, max_records, notebook, calls>>
    /\ UNCHANGED nbvars

\* The finding-aid notebook is not run while a harvest notebook is.
NotebookIdle ==
    /\ html = Html(<<>>, NoRegion, "Papers of A", "MS 1")
    /\ pc = "start"
    /\ raised = PyNone
    /\ fa = EmptyDict
    /\ leaves = [run |-> FALSE, val |-> <<>>]
    /\ pathsRuns = <<>>
    /\ dfltTitles = <<>>
    /\ dfltCalls = <<>>
    /\ gens = [g \in Gens |-> NoGen]
    /\ written = <<>>

\* A harvest notebook with an empty cache.
InitHarvest ==
    /\ NotebookIdle
    /\ \/ notebook = "pd" /\ api \in ApiInputs
       \/ notebook = "fa" /\ api \in FaApiInputs
    /\ cache = {}
    /\ HarvestIdle

NextHarvest == CallHarvest \/ HarvestPage

SpecHarvest == InitHarvest /\ [][NextHarvest]_vars

\* Any of the three harvests, called up to MaxCalls times in one kernel: the
\* later calls find the cache and the params dict as the earlier ones left them.
InitSession ==
    /\ NotebookIdle
    /\ notebook \in {"pd", "fa", "old"}
    /\ api \in SessionApis
    /\ cache = {}
    /\ HarvestIdle

NextSession == CallHarvest \/ HarvestPage \/ CallHarvestAgain

\* A pass of "while start:", seen by its request alone: every pass is such a
\* step and, within harvest, every such step is a pass.
LoopPass ==
    /\ hpc = "running"
    /\ Len(requests) < MaxRequests
    /\ requests' = Append(requests, start)

\* A pass of the loop that can be made is made: the program runs on.
SpecSession == InitSession /\ [][NextSession]_vars /\ WF_requests(LoopPass)

\* ------------------------------------------- the tree, by node positions

\* The position of a node: the indices leading to it from the list of
\* top-level series.
RECURSIVE PositionsOf(_)
PositionsOf(nodes) ==
    UNION {{<<i>>} \cup {<<i>> \o q : q \in PositionsOf(nodes[i].children)} :
           i \in 1..Len(nodes)}

RECURSIVE NodeAt(_, _)
NodeAt(nodes, p) ==
    IF Len(p) = 1 THEN nodes[p[1]] ELSE NodeAt(nodes[p[1]].children, Tail(p))

\* Document order of positions (depth-first pre-order, left to right).
Before(p, q) ==
    \E k \in 1..Len(q) :
        /\ \A i \in 1..(k - 1) : i <= Len(p) /\ p[i] = q[i]
        /\ (k > Len(p) \/ p[k] < q[k])

RECURSIVE InOrder(_)
InOrder(P) ==
    IF P = {} THEN <<>>
    ELSE LET m == CHOOSE p \in P : \A q \in P \ {p} : Before(p, q)
         IN  <<m>> \o InOrder(P \ {m})

\* The positions of the leaves in document order.
LeafPositions(nodes) ==
    InOrder({p \in PositionsOf(nodes) : NodeAt(nodes, p).children = <<>>})

\* The titles of the proper ancestors of the node at p, top-level series first.
AncestorTitles(nodes, p) ==
    [k \in 1..(Len(p) - 1) |-> NodeAt(nodes, SubSeq(p, 1, k)).title]

Items == fa["items"]

\* ------------------------------------------------------------------ claims

\* C1: every run of the notebook's path-building loop gives exactly one record
\* {id, title, context} per leaf of the tree and none for a node with
\* children, and the context of a leaf's record is the titles of its proper
\* ancestors, top-level series first, joined by " / " (the empty string for a
\* top-level series without children).
C1_OneRecordPerLeafWithAncestorContext ==
    pc = "converted" =>
        \A r \in 1..Len(pathsRuns) :
            LET run == pathsRuns[r]
                lp == LeafPositions(Items)
            IN  /\ Len(run) = Len(lp)
                /\ \A i \in 1..Len(lp) :
                      run[i] = [id |-> NodeAt(Items, lp[i]).id,
                                title |-> NodeAt(Items, lp[i]).title,
                                context |-> Join(AncestorTitles(Items, lp[i]), " / ")]

\* The paths were built for a tree in which every heading gave one node and one
\* leaf lies three levels down, so that its context joins two titles.
C1_Witness ==
    /\ pc = "converted"
    /\ pathsRuns # <<>>
    /\ \A p, q \in PositionsOf(Items) : p # q => NodeAt(Items, p).id # NodeAt(Items, q).id
    /\ \E p \in PositionsOf(Items) : Len(p) = 3 /\ NodeAt(Items, p).children = <<>>
    /\ \E i \in 1..Len(pathsRuns[1]) : pathsRuns[1][i].context = "A / B"

\* C2: the records of a run of the path-building loop and the leaves
\* find_leaves(fa["items"]) yields are equally many and agree in id and title
\* position by position.
C2_PathsInLeafOrder ==
    (pc = "converted" /\ leaves.run) =>
        \A r \in 1..Len(pathsRuns) :
            /\ Len(pathsRuns[r]) = Len(leaves.val)
            /\ \A i \in 1..Len(leaves.val) :
                  /\ pathsRuns[r][i].id = leaves.val[i].id
                  /\ pathsRuns[r][i].title = leaves.val[i].title

\* Leaves and paths were built for a tree with leaves of different ids under
\* a node with children.
C2_Witness ==
    /\ pc = "converted" /\ leaves.run /\ pathsRuns # <<>>
    /\ \E i, j \in 1..Len(leaves.val) : leaves.val[i].id # leaves.val[j].id
    /\ \E i \in 1..Len(Items) : Len(Items[i].children) >= 2

\* C3: every run of the path-building loop over the same fa["items"] returns
\* the same list, whatever calls of get_paths were made in between, and fa is
\* still the value the conversion returned.
C3_PathsRunsAgree ==
    pc = "converted" =>
        /\ \A i, j \in 1..Len(pathsRuns) : pathsRuns[i] = pathsRuns[j]
        /\ fa = convert_finding_aid(html).val

\* The loop ran twice, on a tree with a leaf below a series, with a call that
\* used the defaults in between or before.
C3_Witness ==
    /\ pc = "converted"
    /\ Len(pathsRuns) >= 2
    /\ dfltTitles # <<>>
    /\ \E i \in 1..Len(pathsRuns[1]) : pathsRuns[1][i].context # ""

\* C4: two successive calls get_paths(node) that use the declared defaults,
\* on the same node with children, return equal results, and the second call
\* starts from a titles list that holds nothing of the first.
C4_DefaultCallsAgree ==
    \A i \in 1..Len(dfltCalls) :
        \A j \in 1..Len(dfltCalls) :
            (j = i + 1 /\ dfltCalls[i].node = dfltCalls[j].node
                /\ dfltCalls[i].node.children # <<>>)
            => /\ dfltCalls[i].paths = dfltCalls[j].paths
               /\ dfltCalls[j].before = <<>>

\* C5: list(find_leaves(fa["items"])) is the nodes without children, each
\* once, in depth-first pre-order from left to right, and no node with
\* children.
C5_LeavesInDocumentOrder ==
    (pc = "converted" /\ leaves.run) =>
        LET lp == LeafPositions(Items)
        IN  /\ Len(leaves.val) = Len(lp)
            /\ \A i \in 1..Len(lp) : leaves.val[i] = NodeAt(Items, lp[i])
            /\ \A i \in 1..Len(leaves.val) : leaves.val[i].children = <<>>

\* The leaves were listed for a tree with leaves at different depths.
C5_Witness ==
    /\ pc = "converted" /\ leaves.run
    /\ \E p, q \in PositionsOf(Items) :
          /\ NodeAt(Items, p).children = <<>>
          /\ NodeAt(Items, q).children = <<>>
          /\ Len(p) < Len(q)

\* The leaves of the tree in document order, by position.
LeavesByPosition ==
    LET lp == LeafPositions(Items) IN [i \in 1..Len(lp) |-> NodeAt(Items, lp[i])]

\* C6: every find_leaves generator over the tree ends after one call of next
\* per leaf and one more, has then yielded the leaves in document order, and
\* has at any moment yielded a prefix of them, whatever another generator over
\* the same tree has consumed; fa is still the value the conversion returned.
C6_GeneratorsFiniteAndIndependent ==
    pc = "converted" =>
        /\ fa = convert_finding_aid(html).val
        /\ \A g \in Gens :
              gens[g].created =>
                  /\ Len(gens[g].yielded) <= Len(LeavesByPosition)
                  /\ gens[g].yielded = SubSeq(LeavesByPosition, 1, Len(gens[g].yielded))
                  /\ gens[g].done <=> (gens[g].calls = Len(LeavesByPosition) + 1)
                  /\ ~gens[g].done => gens[g].calls = Len(gens[g].yielded)
                  /\ gens[g].done => gens[g].yielded = LeavesByPosition

\* One generator has run to its end over a tree with several leaves some of
\* them below a node with children, while the other, created as well, is
\* part of the way through.
C6_Witness ==
    /\ pc = "converted"
    /\ gens["g1"].done
    /\ Len(gens["g1"].yielded) >= 3
    /\ \E i \in 1..Len(Items) : Items[i].children # <<>>
    /\ gens["g2"].created /\ ~gens["g2"].done
    /\ Len(gens["g2"].yielded) >= 1
    /\ Len(gens["g2"].yielded) < Len(gens["g1"].yielded)

\* --------------------------------------- the document, by its own structure

Doc == html.doc

\* Element k is a heading whose class marks level l with two digits.
IsHeadingOfLevel(k, l) == Doc[k].name = "h" /\ Doc[k].class = HeadingClass(l)

\* The headings of level l in document order.
HeadingsOfLevel(l) == SelectSeq(Indices(Doc), LAMBDA k : IsHeadingOfLevel(k, l))

\* Element k lies inside element a (0: the whole document), following
\* .parent from k upwards.
RECURSIVE Inside(_, _)
Inside(k, a) == k # 0 /\ (Parent(Doc, k) = a \/ Inside(Parent(Doc, k), a))

\* The heading a node was built from: the element that carries the node's id.
HeadingOf(node) == CHOOSE k \in 1..Len(Doc) : Doc[k].hasId /\ IdOf(Doc, k) = node.id

\* The headings the extraction reaches at level l: the level-1 headings, and
\* the headings of level l inside the parent of a heading reached at l - 1.
RECURSIVE ReachedAt(_)
ReachedAt(l) ==
    IF l = 1 THEN {k \in 1..Len(Doc) : IsHeadingOfLevel(k, 1)}
    ELSE {k \in 1..Len(Doc) :
            /\ IsHeadingOfLevel(k, l)
            /\ \E j \in ReachedAt(l - 1) : Inside(k, Parent(Doc, j))}

Reached == UNION {ReachedAt(l) : l \in 1..(Len(Doc) + 1)}

\* C7: for a document whose headings are N level-1 headings (each with an
\* id, so that C10 does not apply) and no deeper heading, the conversion
\* returns N items in document order, each without children, and find_leaves
\* gives exactly those N nodes in the same order.
C7_FlatDocumentGivesItsHeadings ==
    (/\ pc # "start"
     /\ \A k \in 1..Len(Doc) :
           Doc[k].name = "h" => (IsHeadingOfLevel(k, 1) /\ Doc[k].hasId))
    => /\ pc = "converted"
       /\ Len(Items) = Len(HeadingsOfLevel(1))
       /\ \A i \in 1..Len(Items) :
             /\ Items[i].id = IdOf(Doc, HeadingsOfLevel(1)[i])
             /\ Items[i].children = <<>>
       /\ leaves.run => leaves.val = Items

\* C8: in the tree of a converted document, the children of a node built from
\* a heading of level l are built from headings marked level l + 1 that lie
\* inside the parent element of the node's own heading, in document order.
C8_ChildrenOneLevelDeeperInsideParent ==
    pc = "converted" =>
        \A p \in PositionsOf(Items) :
            LET node == NodeAt(Items, p)
                h == HeadingOf(node)
            IN  /\ IsHeadingOfLevel(h, Len(p))
                /\ \A j \in 1..Len(node.children) :
                      LET c == HeadingOf(node.children[j])
                      IN  /\ IsHeadingOfLevel(c, Len(p) + 1)
                          /\ Inside(c, Parent(Doc, h))
                          /\ \A i \in 1..(j - 1) : HeadingOf(node.children[i]) < c

\* A converted document with two series in different parent elements: a
\* deeper heading lies inside the parent of one series only, and is a child
\* of that series and not of the other.
C8_Witness ==
    /\ pc = "converted"
    /\ \E a, b \in 1..Len(Items) :
          /\ a # b
          /\ Items[a].children = <<>>
          /\ Items[b].children # <<>>
          /\ \A j \in 1..Len(Items[b].children) :
                /\ Inside(HeadingOf(Items[b].children[j]), Parent(Doc, HeadingOf(Items[b])))
                /\ ~Inside(HeadingOf(Items[b].children[j]), Parent(Doc, HeadingOf(Items[a])))

\* C9: every heading of the document gives at most one node of the output:
\* no two positions of the tree hold nodes built from the same heading.
C9_EachHeadingAtMostOneNode ==
    pc = "converted" =>
        \A p, q \in PositionsOf(Items) :
            p # q => HeadingOf(NodeAt(Items, p)) # HeadingOf(NodeAt(Items, q))

\* C10: when a heading the extraction reaches has no id, the conversion cell
\* raises (KeyError, unless the summary raised before) and fa is not set; and
\* every node of a tree that was returned carries the id of a heading of its
\* level.
C10_MissingIdRaises ==
    pc # "start" =>
        /\ (\E k \in Reached : ~Doc[k].hasId) =>
              /\ pc = "failed"
              /\ fa = EmptyDict
              /\ get_fa_summary(html.region).ok => raised = "KeyError"
        /\ pc = "converted" =>
              \A p \in PositionsOf(Items) :
                  \E k \in 1..Len(Doc) :
                      /\ Doc[k].hasId
                      /\ IsHeadingOfLevel(k, Len(p))
                      /\ NodeAt(Items, p).id = IdOf(Doc, k)

\* The conversion raised KeyError for a heading without id found as a child
\* of a digitised series, after the handler around get_first_page had passed
\* over the KeyError of that series' thumbnail without data-pid.
C10_Witness ==
    /\ pc = "failed"
    /\ raised = "KeyError"
    /\ \A k \in ReachedAt(1) : Doc[k].hasId
    /\ \E k \in ReachedAt(1) :
          /\ is_digitised(Doc, k)
          /\ ~get_first_page(Doc, k).ok
    /\ \E k \in ReachedAt(2) : ~Doc[k].hasId

MarkedDigitised(h) ==
    LET par == Parent(Doc, h)
    IN  par # 0 /\ \E i \in 1..Len(Doc[par].class) : Doc[par].class[i] = "image-and-title"

\* The thumbnail images inside the structural parent of heading h, in
\* document order.
Thumbnails(h) ==
    SelectSeq(Descendants(Doc, Parent(Doc, h)),
              LAMBDA j : Doc[j].name = "img"
                         /\ \E i \in 1..Len(Doc[j].class) : Doc[j].class[i] = "thumbnail")

\* Those of them that have a data-pid attribute.
ThumbnailsWithPid(h) == SelectSeq(Thumbnails(h), LAMBDA j : Doc[j].hasPid)

\* C12 as stated: a node is digitised exactly if its heading's parent is
\* marked image-and-title; a digitised node whose parent holds a thumbnail
\* with data-pid has as first_page the data-pid of the first thumbnail that
\* has one; a node that is not digitised has first_page "".
C12_FirstPageOfFirstThumbnailWithPid ==
    pc = "converted" =>
        \A p \in PositionsOf(Items) :
            LET node == NodeAt(Items, p)
                h == HeadingOf(node)
            IN  /\ node.digitised = MarkedDigitised(h)
                /\ (node.digitised /\ ThumbnailsWithPid(h) # <<>>)
                      => node.first_page = PidOf(Doc, ThumbnailsWithPid(h)[1])
                /\ ~node.digitised => node.first_page = ""

\* C12 amended: a node is digitised exactly if its heading's parent is marked
\* image-and-title; a digitised node whose parent's first thumbnail image has
\* a data-pid has that data-pid as first_page; a node that is not digitised
\* has first_page "".
C12_FirstPageOfFirstThumbnail ==
    pc = "converted" =>
        \A p \in PositionsOf(Items) :
            LET node == NodeAt(Items, p)
                h == HeadingOf(node)
            IN  /\ node.digitised = MarkedDigitised(h)
                /\ (node.digitised /\ Thumbnails(h) # <<>> /\ Doc[Thumbnails(h)[1]].hasPid)
                      => node.first_page = PidOf(Doc, Thumbnails(h)[1])
                /\ ~node.digitised => node.first_page = ""

\* A converted document with a digitised node whose parent holds two
\* thumbnail images with different data-pids, the first of which is the
\* node's first_page.
C12_Witness ==
    /\ pc = "converted"
    /\ \E p \in PositionsOf(Items) :
          LET node == NodeAt(Items, p)
              h == HeadingOf(node)
          IN  /\ node.digitised
              /\ Len(ThumbnailsWithPid(h)) >= 2
              /\ node.first_page = PidOf(Doc, Thumbnails(h)[1])

\* C13: a digitised node whose parent holds no thumbnail image has digitised
\* TRUE and as first_page the empty string, the value a node that is not
\* digitised carries; no node of a returned tree has None as first_page.
C13_FirstPageUnsetIsEmptyString ==
    pc = "converted" =>
        \A p \in PositionsOf(Items) :
            LET node == NodeAt(Items, p)
                h == HeadingOf(node)
            IN  /\ (MarkedDigitised(h) /\ Thumbnails(h) = <<>>)
                      => (node.digitised /\ node.first_page = "")
                /\ node.first_page # PyNone

\* The collection-summary region of the document.
Region == html.region

\* The positions of the labels (dt) in the summary's definition list.
Labels == {i \in 1..Len(Region.items) : Region.items[i].tag = "dt"}

\* The key a label normalises to.
KeyOfLabel(i) == SummaryKey(Region.items[i].string)

\* The first dd among the following siblings of the label at position i.
ValueOfLabel(i) ==
    LET J == {j \in (i + 1)..Len(Region.items) : Region.items[j].tag = "dd"}
    IN  Region.items[CHOOSE j \in J : \A x \in J : j <= x]

\* The last label that normalises to key.
LastLabelOf(key) ==
    CHOOSE i \in Labels : KeyOfLabel(i) = key /\ \A j \in Labels : KeyOfLabel(j) = key => j <= i

\* The string of a fallback field: empty for an element that is absent.
FallbackString(field) ==
    IF field = NoElem THEN "" ELSE IF field = NoString THEN "None" ELSE field

\* The keys of the result besides items.
SummaryFields == (DOMAIN fa) \ {"items"}

\* C14: the summary fields of the result are the label/value pairs of the
\* collection-summary definition list whenever the region is present (also
\* when no label normalises to title), and the fallback pair title and
\* collection_number only when the region is absent.
C14_SummaryFromRegionWhenPresent ==
    pc = "converted" =>
        IF Region.head
        THEN /\ SummaryFields = {KeyOfLabel(i) : i \in Labels} \ {"items"}
             /\ \A key \in SummaryFields :
                   fa[key] = Strip(ValueOfLabel(LastLabelOf(key)).string)
        ELSE /\ SummaryFields = {"title", "collection_number"}
             /\ fa["title"] = FallbackString(html.contentrow)
             /\ fa["collection_number"] = FallbackString(html.collnum)

\* The labels that have a dd among their following siblings.
PairedLabels ==
    {i \in Labels : \E j \in (i + 1)..Len(Region.items) : Region.items[j].tag = "dd"}

PairedKeys == {KeyOfLabel(i) : i \in PairedLabels}

\* C15: with a summary definition list present, a label without a following
\* dd sibling raises no error and produces no key, and every other label is
\* paired with the first dd among its following siblings.
C15_LabelWithoutValueIsSkipped ==
    (pc # "start" /\ Region.head /\ Region.dl) =>
        /\ raised # "AttributeError"
        /\ (pc = "converted" /\ "title" \in PairedKeys) =>
              /\ SummaryFields = PairedKeys \ {"items"}
              /\ \A i \in PairedLabels :
                    (/\ KeyOfLabel(i) # "items"
                     /\ \A j \in PairedLabels : KeyOfLabel(j) = KeyOfLabel(i) => j <= i)
                    => fa[KeyOfLabel(i)] = Strip(ValueOfLabel(i).string)

\* C16: the fallback extraction raises nothing; it gives a mapping with
\* exactly the keys title and collection_number, and a value is the empty
\* string whenever its element is absent.  A conversion that used the
\* fallback carries these fields, and a conversion never fails in it.
C16_FallbackNeverFails ==
    /\ get_fa_details(html).ok
    /\ DOMAIN get_fa_details(html).val = {"title", "collection_number"}
    /\ html.contentrow = NoElem => get_fa_details(html).val["title"] = ""
    /\ html.collnum = NoElem => get_fa_details(html).val["collection_number"] = ""
    /\ (pc = "converted" /\ ~Region.head) =>
          /\ SummaryFields = {"title", "collection_number"}
          /\ html.contentrow = NoElem => fa["title"] = ""
          /\ html.collnum = NoElem => fa["collection_number"] = ""
    /\ (pc = "failed" /\ ~Region.head) => raised = "KeyError"

\* A conversion used the fallback for a document that has neither element.
C16_Witness ==
    /\ pc = "converted"
    /\ ~Region.head
    /\ html.contentrow = NoElem /\ html.collnum = NoElem
    /\ fa["title"] = "" /\ fa["collection_number"] = ""

\* C17: every result the conversion returns has the key items, and its value
\* is the list of the nodes built from the level-1 headings in document
\* order, also when a label of the summary normalises to items.
C17_ItemsAreTheTopLevelNodes ==
    pc = "converted" =>
        /\ "items" \in DOMAIN fa
        /\ Len(fa["items"]) = Len(HeadingsOfLevel(1))
        /\ \A i \in 1..Len(HeadingsOfLevel(1)) :
              /\ fa["items"][i].id = IdOf(Doc, HeadingsOfLevel(1)[i])
              /\ fa["items"][i].title = Strip(TextAt(HeadingsOfLevel(1)[i]))

\* A document with a level-1 heading was converted whose summary has labels
\* that normalise to title and to items.
C17_Witness ==
    /\ pc = "converted"
    /\ HeadingsOfLevel(1) # <<>>
    /\ {"title", "items"} \subseteq PairedKeys
    /\ "title" \in DOMAIN fa
    /\ "collection_number" \notin DOMAIN fa

\* C18: no artifact is written before the conversion has returned: after a
\* conversion that raised nothing is written, and the JSON file is written
\* once, with the complete result of the conversion as its content; the CSV
\* files hold the leaves and the paths built from that result.
C18_NoArtifactBeforeConversion ==
    /\ pc # "converted" => written = <<>>
    /\ \A i \in 1..Len(written) :
          /\ written[i].name = "json" => written[i].content = convert_finding_aid(html).val
          /\ written[i].name = "leaves" => (leaves.run /\ written[i].content = leaves.val)
          /\ written[i].name = "paths" =>
                \E k \in 1..Len(pathsRuns) : written[i].content = pathsRuns[k]
          /\ \A j \in 1..Len(written) : written[j].name = written[i].name => j = i

\* All three artifacts were written for a converted document with a node.
C18_Witness ==
    /\ pc = "converted"
    /\ Len(written) = 3
    /\ fa["items"] # <<>>

\* ------------------------------------------------ the harvested records

\* The records of the pages harvest has requested (page and position).
Inspected ==
    {<<p, i>> \in {PageAt(requests[k]) : k \in 1..Len(requests)} \X (1..MaxRecs) :
        i <= Len(api[p].work)}

RecordAt(pi) == api[pi[1]].work[pi[2]]

\* The ids of the items saved so far.
SavedIds == {items[i].id : i \in 1..Len(items)}

\* The value of a decimal digit character.
ValueOfDigit(c) == CHOOSE v \in 0..9 : SubSeq("0123456789", v + 1, v + 1) = c

\* The text ends in a four-digit year (four digits that stand alone: no
\* letter, digit or underscore before them) that is less than limit.
EndsInYearBefore(text, limit) ==
    LET n == Len(text)
        ch(k) == SubSeq(text, k, k)
        digit(k) == \E v \in 0..9 : SubSeq("0123456789", v + 1, v + 1) = ch(k)
        alnum(k) == \E j \in 1..63 :
                       SubSeq("_abcdefghijklmnopqrstuvwxyzABCDEFGHIJKLMNOPQRSTUVWXYZ0123456789",
                              j, j) = ch(k)
    IN  /\ n >= 4
        /\ \A k \in (n - 3)..n : digit(k)
        /\ n > 4 => ~alnum(n - 4)
        /\ 1000 * ValueOfDigit(ch(n - 3)) + 100 * ValueOfDigit(ch(n - 2))
              + 10 * ValueOfDigit(ch(n - 1)) + ValueOfDigit(ch(n)) < limit

\* The record lists creators.
ListsCreators(r) == r.contributor.given /\ Len(r.contributor.list) > 0

\* C19: an inspected record that lists creators is saved if and only if
\* every one of its creators ends in a four-digit year less than 1949,
\* whatever its issued date.
C19_CreatorsDecideSaving ==
    \A pi \in Inspected :
        LET r == RecordAt(pi)
        IN  ListsCreators(r) =>
                (r.id \in SavedIds <=>
                    \A k \in 1..Len(r.contributor.list) :
                        EndsInYearBefore(r.contributor.list[k], 1949))

\* harvest returned having saved a record of two creators whose issued date
\* is 1949.
C19_Witness ==
    /\ hpc = "returned"
    /\ \E pi \in Inspected :
          /\ Len(RecordAt(pi).contributor.list) = 2
          /\ RecordAt(pi).issued = IssuedInt(1949)
          /\ RecordAt(pi).id \in SavedIds

\* The text of an issued value.
IssuedText(d) == IF d.type = "int" THEN ToString(d.int) ELSE d.str

\* C20: an inspected record without creators is saved if and only if it has
\* an issued date that ends in a four-digit year less than 1949; a record
\* with neither creators nor issued date is not saved.
C20_DateDecidesWithoutCreators ==
    \A pi \in Inspected :
        LET r == RecordAt(pi)
        IN  ~ListsCreators(r) =>
                (r.id \in SavedIds <=>
                    (r.issued.type # "none" /\ EndsInYearBefore(IssuedText(r.issued), 1949)))

\* harvest returned having saved a record without contributor field for its
\* issued date, and the saved item has no creator.
C20_Witness ==
    /\ hpc = "returned"
    /\ \E i \in 1..Len(items) :
          /\ items[i].creator = PyNone
          /\ items[i].date = IssuedStr("1855-1948")

\* The items saved from a sequence of records, by the decision made for each.
RECURSIVE SavedFrom(_)
SavedFrom(work) ==
    IF work = <<>> THEN <<>>
    ELSE (IF Head(work).id \in SavedIds THEN <<Head(work).id>> ELSE <<>>)
             \o SavedFrom(Tail(work))

\* The ids of the saved records of the requested pages, in the order of the
\* requests.
RECURSIVE GatheredUpTo(_)
GatheredUpTo(k) ==
    IF k = 0 THEN <<>>
    ELSE GatheredUpTo(k - 1) \o SavedFrom(api[PageAt(requests[k])].work)

\* C21: harvest called with max_records = m > 0 makes at most ceil(m / 100)
\* page requests, has returned once it has made that many, also when the last
\* response carried a nextStart, and returns what the requested pages gave.
C21_StopsAtMaxRecords ==
    max_records > 0 =>
        LET most == (max_records + 99) \div 100
        IN  /\ Len(requests) <= most
            /\ Len(requests) = most => hpc = "returned"
            /\ hpc = "returned" =>
                  [i \in 1..Len(items) |-> items[i].id] = GatheredUpTo(Len(requests))

\* harvest(150) returned after two requests with saved items although the
\* second response carried a nextStart.
C21_Witness ==
    /\ hpc = "returned"
    /\ max_records = 150
    /\ Len(requests) = 2
    /\ start # PyNone
    /\ items # <<>>

\* The identifiers of the inspected records that contain the text
\* "findingaid" (page, position, place in the identifier field).
FindingAidIdentifiers ==
    {<<pi, k>> \in Inspected \X (1..MaxIdents) :
        /\ k <= Len(RecordAt(pi).identifier.list)
        /\ \E i \in 1..Len(RecordAt(pi).identifier.list[k].value) :
              StartsWithAt(RecordAt(pi).identifier.list[k].value, "findingaid", i)}

\* C22: once the finding-aid harvest has returned, every identifier of an
\* inspected record that contains "findingaid" has its url, trimmed after
\* "findingaid", in the result list, and the list has one url for each such
\* identifier: a record with several of them contributes all.
C22_EveryFindingAidUrlSaved ==
    (notebook = "fa" /\ hpc = "returned") =>
        /\ \A ik \in FindingAidIdentifiers :
              \E j \in 1..Len(finding_aids) :
                  finding_aids[j] =
                      Standardise(TrimToFindingAid(RecordAt(ik[1]).identifier.list[ik[2]].value))
        /\ Len(finding_aids) = Cardinality(FindingAidIdentifiers)

\* The request of the log entry reached the remote API.
IsRemote(e) == e.type = "request" /\ ~e.from_cache

\* C23: in every run of harvest a sleep is executed between any two
\* consecutive requests that reach the remote API (no other such request
\* between them), the get_total request and the first page request included.
C23_SleepBetweenRemoteRequests ==
    \A i \in 1..Len(events) : \A j \in (i + 1)..Len(events) :
        (/\ IsRemote(events[i])
         /\ IsRemote(events[j])
         /\ \A k \in (i + 1)..(j - 1) : ~IsRemote(events[k]))
            => \E k \in (i + 1)..(j - 1) : events[k] = Sleep

\* The calls of get_paths of the traversals the path-building cell starts,
\* one traversal for each top-level series.
RECURSIVE TraversalEntries(_)
TraversalEntries(s) ==
    IF s > Len(Items) THEN <<>>
    ELSE EntriesOf(Items[s], <<s>>, DriverTitles(dfltTitles)) \o TraversalEntries(s + 1)

\* C24: in a traversal started by get_paths(series, [], []), at every entry
\* to get_paths for a node the titles list holds the titles of the node's
\* proper ancestors, top-level series first; and a call for a leaf leaves the
\* caller's list with the leaf's title appended: "titles = []" changes no
\* list a caller sees.
C24_TitlesAtEntryAreAncestors ==
    (pc = "converted" /\ Len(pathsRuns) > 0) =>
        LET entries == TraversalEntries(1)
        IN  \A k \in 1..Len(entries) :
                LET node == NodeAt(Items, entries[k].pos)
                IN  /\ entries[k].titles = AncestorTitles(Items, entries[k].pos)
                    /\ node.children = <<>> =>
                          get_paths(node, entries[k].titles).titles
                              = Append(entries[k].titles, node.title)

\* The paths cell ran on a tree in which a node with a child is followed by
\* a sibling: get_paths is entered for the sibling after the calls below the
\* node returned.
C24_Witness ==
    /\ pc = "converted"
    /\ Len(pathsRuns) > 0
    /\ \E p \in PositionsOf(Items) :
          /\ Len(p) >= 2
          /\ p[Len(p)] >= 2
          /\ NodeAt(Items, SubSeq(p, 1, Len(p) - 1) \o <<p[Len(p)] - 1>>).children # <<>>

\* C25: when a call get_paths(node, paths, titles) of the traversal returns,
\* the titles list passed in holds exactly the elements it held when the
\* call was made, whether the node is a leaf or has children.
C25_TitlesRestoredOnReturn ==
    (pc = "converted" /\ Len(pathsRuns) > 0) =>
        LET entries == TraversalEntries(1)
        IN  \A k \in 1..Len(entries) :
                get_paths(NodeAt(Items, entries[k].pos), entries[k].titles).titles
                    = entries[k].titles

\* Heading h is digitised and the first thumbnail image of its parent has no
\* data-pid attribute.
FirstThumbnailLacksPid(h) ==
    /\ MarkedDigitised(h)
    /\ Thumbnails(h) # <<>>
    /\ ~Doc[Thumbnails(h)[1]].hasPid

\* C26: a digitised heading whose first thumbnail image lacks data-pid does
\* not make the conversion fail (a document whose reached headings all have
\* an id and whose summary is extracted is converted); its node has
\* digitised TRUE and first_page "", its children are the headings of the
\* next level inside its parent, and every heading the extraction reaches,
\* also after it, has its node.
C26_MissingPidDoesNotFail ==
    (/\ pc # "start"
     /\ \E h \in Reached : FirstThumbnailLacksPid(h)
     /\ \A k \in Reached : Doc[k].hasId
     /\ get_fa_summary(html.region).ok)
    => /\ pc = "converted"
       /\ \A p \in PositionsOf(Items) :
             LET node == NodeAt(Items, p)
                 h == HeadingOf(node)
             IN  FirstThumbnailLacksPid(h) =>
                     /\ node.digitised
                     /\ node.first_page = ""
                     /\ Len(node.children) =
                           Cardinality({c \in 1..Len(Doc) :
                                           /\ IsHeadingOfLevel(c, Len(p) + 1)
                                           /\ Inside(c, Parent(Doc, h))})
       /\ \A k \in Reached :
             \E q \in PositionsOf(Items) : HeadingOf(NodeAt(Items, q)) = k

\* A converted document with a digitised node whose first thumbnail has no
\* data-pid and which has a child, extracted after it.
C26_Witness ==
    /\ pc = "converted"
    /\ \E p \in PositionsOf(Items) :
          /\ FirstThumbnailLacksPid(HeadingOf(NodeAt(Items, p)))
          /\ NodeAt(Items, p).first_page = ""
          /\ NodeAt(Items, p).children # <<>>

\* C27: for every level L >= 1 (9 and above included), every heading marked
\* with the two-digit marker of level L + 1 that lies inside the parent
\* element of the heading of a level-L node is a child of that node.
C27_EveryLevelHasItsChildren ==
    pc = "converted" =>
        \A p \in PositionsOf(Items) :
            LET node == NodeAt(Items, p)
                h == HeadingOf(node)
            IN  \A c \in 1..Len(Doc) :
                    (IsHeadingOfLevel(c, Len(p) + 1) /\ Inside(c, Parent(Doc, h)))
                        => \E j \in 1..Len(node.children) :
                               HeadingOf(node.children[j]) = c

\* The direct children of the structural parent of heading h, in document order.
Siblings(h) ==
    SelectSeq(Indices(Doc),
              LAMBDA c : c # 0 /\ Parent(Doc, c) = Parent(Doc, h))

\* What child c adds to a description: its trimmed text when it is a string
\* with other than white space, its trimmed text when it is a <p>, nothing
\* otherwise.
FragmentOf(c) ==
    IF Doc[c].name = "#text"
    THEN IF \E i \in 1..Len(StringAt(c)) : SubSeq(StringAt(c), i, i) # " "
         THEN <<Strip(StringAt(c))>>
         ELSE <<>>
    ELSE IF Doc[c].name = "p" THEN <<Strip(TextAt(c))>>
    ELSE <<>>

RECURSIVE FragmentsOf(_)
FragmentsOf(cs) == IF cs = <<>> THEN <<>> ELSE FragmentOf(Head(cs)) \o FragmentsOf(Tail(cs))

\* C28: the description of a node is made from the direct children of its
\* heading's parent, in document order: the trimmed text of each string that
\* is not blank and the trimmed text of each <p>, also of a <p> that holds
\* nested inline tags, joined by newline; headings and other tags add
\* nothing, and the description is "" when there is no fragment.
C28_DescriptionFromDirectChildren ==
    pc = "converted" =>
        \A p \in PositionsOf(Items) :
            NodeAt(Items, p).description
                = Join(FragmentsOf(Siblings(HeadingOf(NodeAt(Items, p)))), "\n")

\* The number of consecutive levels present in the document: the largest n
\* for which every level 1..n marks a heading.
ConsecutiveLevels ==
    LET N == {n \in 0..Len(Doc) : \A l \in 1..n : HeadingsOfLevel(l) # <<>>}
    IN  CHOOSE n \in N : \A m \in N : m <= n

\* C29: the conversion of every document ends, and the nest of calls of
\* extract_node_details made for a level-1 heading is no deeper than the
\* number of consecutive levels present in the document, whatever the
\* placement of the headings.
C29_RecursionBoundedByLevels ==
    pc # "start" =>
        \A k \in 1..Len(Doc) :
            IsHeadingOfLevel(k, 1) => CallDepth(Doc, k, 1) <= ConsecutiveLevels

\* The conversion ended for a document in which a level-2 heading lies
\* outside the parent of every level-1 heading and is not reached, while
\* another one is reached: the calls nest two deep.
C29_Witness ==
    /\ pc = "converted"
    /\ \E k \in 1..Len(Doc) : IsHeadingOfLevel(k, 2) /\ k \notin Reached
    /\ \E k \in 1..Len(Doc) : IsHeadingOfLevel(k, 1) /\ CallDepth(Doc, k, 1) = 2

\* The response to the k-th page request of the current call.
ResponseTo(k) == api[PageAt(requests[k])]

\* The record holds an identifier that contains "findingaid".
HasFindingAid(r) ==
    \E k \in 1..Len(r.identifier.list) :
        \E i \in 1..Len(r.identifier.list[k].value) :
            StartsWithAt(r.identifier.list[k].value, "findingaid", i)

\* The number of records with a finding aid in the first k responses.
RECURSIVE FindingAidsUpTo(_)
FindingAidsUpTo(k) ==
    IF k = 0 THEN 0
    ELSE FindingAidsUpTo(k - 1)
             + Cardinality({i \in 1..Len(ResponseTo(k).work) :
                              HasFindingAid(ResponseTo(k).work[i])})

\* The cursors of a call: "*" first, then the nextStart of the response
\* before; the records of the responses were processed once each, in the
\* order received; and a call without max_records is over exactly when its
\* last response carried no nextStart.
CursorsFollowResponses ==
    /\ Len(requests) > 0 => requests[1] = "*"
    /\ \A k \in 2..Len(requests) :
          /\ ResponseTo(k - 1).hasNext
          /\ requests[k] = NextStart(PageAt(requests[k - 1]))
    /\ IF notebook = "fa"
       THEN Len(finding_aids) = FindingAidsUpTo(Len(requests))
       ELSE [i \in 1..Len(items) |-> items[i].id] = GatheredUpTo(Len(requests))
    /\ (max_records = 0 /\ hpc # "idle") =>
          (hpc = "returned"
              <=> (Len(requests) > 0 /\ ~ResponseTo(Len(requests)).hasNext))

\* C30: every call of harvest, the first and the later ones, whatever "s"
\* the call before left in params, requests its first page with "*" and each
\* following page with the nextStart of the response before, processes the
\* records of each response once in order, and without max_records returns
\* exactly after the first response without nextStart; so it returns if the
\* API serves such a response, and does not return if the API never does.
C30_EveryCallFollowsTheCursor ==
    /\ []CursorsFollowResponses
    /\ (hpc = "running" /\ ~api[Len(api)].hasNext) ~> (hpc = "returned")
    /\ [](api[Len(api)].hasNext /\ max_records = 0 => hpc # "returned")

\* A second call of harvest without max_records returned after two page
\* requests, the first call having left a cursor in params["s"].
C30_Witness ==
    /\ calls = 2
    /\ hpc = "returned"
    /\ max_records = 0
    /\ requests = <<"*", NextStart(1)>>
    /\ params_s = NextStart(1)
    /\ (items # <<>> \/ finding_aids # <<>>)

====
